---- MODULE Spec2Model ----
(***************************************************************************)
(* A model of updatewcs/dgeo.py: class DGEO, which attaches WCSDVARR       *)
(* lookup-table extensions to every science extension of a pyfits HDUList. *)
(*                                                                         *)
(* The file object is a sequence of extensions; position p of the model is *)
(* Python index p-1.  A header is a sequence of cards (key, value,         *)
(* comment) and keeps its order.  Pixel data is abstracted to the identity *)
(* of the array: where it came from and under which version.               *)
(***************************************************************************)
EXTENDS Integers, Sequences, FiniteSets, TLC

VARIABLES fobj, ref, pc, it, ax, extversion, dgeover, wcsdvarr_ind, error,
          runs, fobj0, prev, log, visited

vars == <<fobj, ref, pc, it, ax, extversion, dgeover, wcsdvarr_ind, error,
          runs, fobj0, prev, log, visited>>

\* Bounds of the model.
MaxExt == 3
MaxRuns == 2
MaxMissing == 1

-----------------------------------------------------------------------------
\* Python values held by header cards and keyword arguments.
None == [t |-> "none", s |-> "", n |-> 0]
Str(x) == [t |-> "str", s |-> x, n |-> 0]
Num(x) == [t |-> "int", s |-> "", n |-> x]

\* Truth value of a Python object, as `or` tests it.
Falsy(v) == v.t = "none" \/ (v.t = "int" /\ v.n = 0) \/ (v.t = "str" /\ v.s = "")

PyOr(a, b) == IF Falsy(a) THEN b ELSE a

\* str.lower() on the extension names that occur.
Lower(s) ==
  CASE s = "SCI" -> "sci"
    [] s = "WCSDVARR" -> "wcsdvarr"
    [] s = "ERR" -> "err"
    [] OTHER -> s

-----------------------------------------------------------------------------
\* pyfits headers.
Card(k, v, c) == [key |-> k, value |-> v, comment |-> c]

HasKey(hdr, k) == \E i \in 1..Len(hdr) : hdr[i].key = k

IndexOf(hdr, k) == CHOOSE i \in 1..Len(hdr) :
                     hdr[i].key = k /\ \A j \in 1..(i-1) : hdr[j].key # k

\* header[k]; the KeyError of a missing key is a guard of the caller.
Get(hdr, k) == IF HasKey(hdr, k) THEN hdr[IndexOf(hdr, k)].value ELSE None

InsertAt(hdr, p, c) == SubSeq(hdr, 1, p-1) \o <<c>> \o SubSeq(hdr, p, Len(hdr))

\* hdr.update(key, value, comment, before='HISTORY')
Update(hdr, k, v, c) ==
  IF HasKey(hdr, k)
    THEN [hdr EXCEPT ![IndexOf(hdr, k)] = Card(k, v, c)]
    ELSE IF HasKey(hdr, "HISTORY")
           THEN InsertAt(hdr, IndexOf(hdr, "HISTORY"), Card(k, v, c))
           ELSE Append(hdr, Card(k, v, c))

\* The array of the reference file's extension (ename, extver).
RefData(ename, extver) == [src |-> ename, ver |-> extver]

-----------------------------------------------------------------------------
\* hstwcs.mappings.dgeo_vals: the instrument defaults table.
dgeo_vals ==
  "ACS" :> [naxis1 |-> Num(65), naxis2 |-> Num(33), extver |-> Num(1),
            crpix1 |-> Num(34), crpix2 |-> Num(17),
            cdelt1 |-> Num(64), cdelt2 |-> Num(32),
            crval1 |-> Num(2048), crval2 |-> Num(1024)]

\* Mutant: an unknown instrument falls back to a default entry
\* (dgeo_vals.get(instr, ...)) instead of raising.
LookupInstr_Fallback(prim) == [ok |-> TRUE, vals |-> dgeo_vals["ACS"]]

\* instr = fobj[0].header['INSTRUME']; instr_vals = dgeo_vals[instr]
\* Either lookup raises KeyError: ok is FALSE then.
LookupInstr(prim) ==
  IF HasKey(prim, "INSTRUME") /\ Get(prim, "INSTRUME").s \in DOMAIN dgeo_vals
    THEN [ok |-> TRUE, vals |-> dgeo_vals[Get(prim, "INSTRUME").s]]
    ELSE [ok |-> FALSE, vals |-> dgeo_vals["ACS"]]

Enames == <<"DX", "DY">>

\* Mutant: the test on ename is inverted.
AxisJ_Swapped(ename) == IF ename = "DX" THEN 2 ELSE 1

\* The axis number j of addSciExtKw.
AxisJ(ename) == IF ename = "DX" THEN 1 ELSE 2

\* The six keywords of addSciExtKw, in the order of `keys`.
SciKw(extver, ename) ==
  LET j == ToString(AxisJ(ename))
  IN << Card("CPERROR" \o j, Num(0),
             "Maximum error of dgeo correction for axis " \o ToString(extver \div 2)),
        Card("CPDIS" \o j, Str("Lookup"), "Prior distortion funcion type"),
        Card("DP" \o j \o ".EXTVER", Num(extver),
             "Version number of WCSDVARR extension containing lookup distortion table"),
        Card("DP" \o j \o ".NAXES", Num(2),
             "Number of independent variables in distortion function"),
        Card("DP" \o j \o ".AXIS.1", Num(1),
             "Axis number of the jth independent variable in a distortion function"),
        Card("DP" \o j \o ".AXIS.2", Num(2),
             "Axis number of the jth independent variable in a distortion function") >>

RECURSIVE UpdateAll(_, _)
UpdateAll(hdr, cards) ==
  IF cards = <<>> THEN hdr
  ELSE UpdateAll(Update(hdr, Head(cards).key, Head(cards).value, Head(cards).comment),
                 Tail(cards))

DgeofileComment == "DGEOFILE used to create WCSDVARR extensions"

\* updateDGEOkw(hdr); prim is fobj[0].header
updateDGEOkw(hdr, prim) ==
  Update(hdr, "DGEOFILE", Get(prim, "DGEOFILE"), DgeofileComment)

\* addSciExtKw(hdr, extver, ename); prim is fobj[0].header
addSciExtKw(hdr, extver, ename, prim) ==
  Update(UpdateAll(hdr, SciKw(extver, ename)),
         "DGEOFILE", Get(prim, "DGEOFILE"), DgeofileComment)

\* createDgeoHdr(**kw) with instr_vals already looked up.
createDgeoHdr(kw, instr_vals) ==
  LET naxis1 == PyOr(kw.naxis1, instr_vals.naxis1)
      naxis2 == PyOr(kw.naxis2, instr_vals.naxis2)
      extver == PyOr(kw.extver, instr_vals.extver)
      crpix1 == PyOr(kw.crpix1, instr_vals.crpix1)
      crpix2 == PyOr(kw.crpix2, instr_vals.crpix2)
      cdelt1 == PyOr(kw.cdelt1, instr_vals.cdelt1)
      cdelt2 == PyOr(kw.cdelt2, instr_vals.cdelt2)
      crval1 == PyOr(kw.crval1, instr_vals.crval1)
      crval2 == PyOr(kw.crval2, instr_vals.crval2)
  IN << Card("XTENSION", Str("IMAGE"), "Image extension"),
        Card("BITPIX", Num(-32), "IEEE floating point"),
        Card("NAXIS", Num(2), "Number of image columns"),
        Card("NAXIS1", naxis1, "Number of image columns"),
        Card("NAXIS2", naxis2, "Number of image rows"),
        Card("EXTNAME", Str("WCSDVARR"), "WCS distortion array"),
        Card("EXTVER", extver, "Distortion array version number"),
        Card("PCOUNT", Num(0), "Special data area of size 0"),
        Card("GCOUNT", Num(1), "One data group"),
        Card("CRPIX1", crpix1, "Distortion array reference pixel"),
        Card("CDELT1", cdelt1, "Grid step size in first coordinate"),
        Card("CRVAL1", crval1, "Image array pixel coordinate"),
        Card("CRPIX2", crpix1, "Distortion array reference pixel"),
        Card("CDELT2", cdelt2, "Grid step size in second coordinate"),
        Card("CRVAL2", crval2, "Image array pixel coordinate") >>

\* pyfits.getdata(dgfile, ext=(ename, extver)) succeeds.
HasDgeoData(r, ename, extver) == extver.t = "int" /\ <<ename, extver.n>> \in r

\* getDgeoData(dgfile, ename, extver)
getDgeoData(ename, extver) == RefData(ename, extver.n)

\* Mutant: the data is read under the running counter dgeover, not under the
\* science extension's EXTVER.
createDgeoHDU_ByCounter(dgver, ename, extver, instr_vals) ==
  [header |-> createDgeoHdr([naxis1 |-> None, naxis2 |-> None, extver |-> Num(dgver),
                             crpix1 |-> None, crpix2 |-> None, cdelt1 |-> None,
                             cdelt2 |-> None, crval1 |-> None, crval2 |-> None],
                            instr_vals),
   data |-> getDgeoData(ename, Num(dgver))]

\* createDgeoHDU(dgeofile, dgeover, ename, extver)
createDgeoHDU(dgver, ename, extver, instr_vals) ==
  LET dgeokw == [naxis1 |-> None, naxis2 |-> None, extver |-> Num(dgver),
                 crpix1 |-> None, crpix2 |-> None, cdelt1 |-> None,
                 cdelt2 |-> None, crval1 |-> None, crval2 |-> None]
  IN [header |-> createDgeoHdr(dgeokw, instr_vals),
      data |-> getDgeoData(ename, extver)]

\* Mutant: the name is compared with 'wcsdvarr', which no header holds.
getwcsindex_Lowercase(f) ==
  LET at == {e \in 1..Len(f) : /\ HasKey(f[e].header, "EXTNAME")
                               /\ Get(f[e].header, "EXTNAME") = Str("wcsdvarr")}
  IN [v \in {Get(f[e].header, "EXTVER").n : e \in at} |-> Len(f)]

\* getwcsindex(): EXTVER -> position of the WCSDVARR extensions; a later
\* extension with the same EXTVER replaces the earlier dictionary entry.
getwcsindex(f) ==
  LET at == {e \in 1..Len(f) : /\ HasKey(f[e].header, "EXTNAME")
                               /\ Get(f[e].header, "EXTNAME") = Str("WCSDVARR")}
      vers == {Get(f[e].header, "EXTVER").n : e \in at}
  IN [v \in vers |-> CHOOSE e \in at :
                       /\ Get(f[e].header, "EXTVER").n = v
                       /\ \A d \in at : Get(f[d].header, "EXTVER").n = v => d <= e]

\* try: ext.header['EXTNAME'] succeeds
HasExtname(ext) == HasKey(ext.header, "EXTNAME")

\* Mutant: a missing EXTNAME is not skipped but taken for a science extension.
IsSciExt_NoTry(ext) ==
  ~HasExtname(ext) \/ Lower(Get(ext.header, "EXTNAME").s) = "sci"

\* Mutant: the test on the name is left out, every named extension is processed.
IsSciExt_AnyName(ext) == HasExtname(ext)

\* extname == 'sci' is reached and true
IsSciExt(ext) == HasExtname(ext) /\ Lower(Get(ext.header, "EXTNAME").s) = "sci"

\* `if wcsdvarr_ind:` is true and wcsdvarr_ind[dgeover] raises KeyError
IndexMiss(ind, ver) == DOMAIN ind # {} /\ ver \notin DOMAIN ind

\* Mutant: the hdu is always appended.
Slot_AlwaysAppend(f, ind, ver) == Len(f) + 1

\* Where the hdu goes: the slot wcsdvarr_ind[dgeover] when wcsdvarr_ind is not
\* empty, the end of the file otherwise.
Slot(f, ind, ver) == IF DOMAIN ind # {} THEN ind[ver] ELSE Len(f) + 1

\* self.fobj[slot] = hdu, or self.fobj.append(hdu)
StoreHdu(f, slot, hdu) ==
  IF slot = Len(f) + 1 THEN Append(f, hdu) ELSE [f EXCEPT ![slot] = hdu]

-----------------------------------------------------------------------------
\* Input files.
PrimaryHdr(hasDgeo, instr) ==
  <<Card("SIMPLE", Str("T"), "")>>
  \o (IF instr = "" THEN <<>> ELSE <<Card("INSTRUME", Str(instr), "")>>)
  \o (IF hasDgeo THEN <<Card("DGEOFILE", Str("ref.fits"), "")>> ELSE <<>>)

NoData == [src |-> "", ver |-> 0]

Primaries ==
  { [header |-> PrimaryHdr(TRUE, "ACS"), data |-> NoData],
    [header |-> PrimaryHdr(TRUE, "NICMOS"), data |-> NoData],
    [header |-> PrimaryHdr(TRUE, ""), data |-> NoData],
    [header |-> PrimaryHdr(FALSE, "ACS"), data |-> NoData] }

NamedExt(name, ver, hist, src) ==
  [header |-> <<Card("XTENSION", Str("IMAGE"), ""),
                Card("EXTNAME", Str(name), ""),
                Card("EXTVER", Num(ver), "")>>
              \o (IF hist THEN <<Card("HISTORY", Str("calibrated"), "")>> ELSE <<>>),
   data |-> [src |-> src, ver |-> ver]]

\* An extension without EXTNAME.
NoNameExt ==
  [header |-> <<Card("XTENSION", Str("IMAGE"), ""), Card("EXTVER", Num(1), "")>>,
   data |-> [src |-> "RAW", ver |-> 1]]

SciVers == {1, 2}
OldVers == {1, 2, 3}

ExtChoices ==
  { NamedExt("SCI", 1, TRUE, "IMG"), NamedExt("sci", 2, FALSE, "IMG"),
    NamedExt("ERR", 1, FALSE, "IMG"), NoNameExt }
  \cup { NamedExt("WCSDVARR", v, FALSE, "OLD") : v \in OldVers }

\* (EXTNAME, EXTVER) is unique in a file, the name compared without case.
ValidFile(f) ==
  \A i, j \in 1..Len(f) :
    (i < j /\ HasExtname(f[i]) /\ HasExtname(f[j]))
      => ~ ( /\ Lower(Get(f[i].header, "EXTNAME").s) = Lower(Get(f[j].header, "EXTNAME").s)
             /\ Get(f[i].header, "EXTVER") = Get(f[j].header, "EXTVER") )

InputFiles ==
  { f \in { <<p>> \o b : p \in Primaries,
                          b \in UNION { [1..n -> ExtChoices] : n \in 0..MaxExt } } :
      ValidFile(f) }

AllRefExts == { <<e, v>> : e \in {"DX", "DY"}, v \in SciVers }

\* Reference files: every (axis, version) but at most MaxMissing of them.
RefFiles == { AllRefExts \ m : m \in { s \in SUBSET AllRefExts : Cardinality(s) <= MaxMissing } }

-----------------------------------------------------------------------------
Init ==
  /\ fobj \in InputFiles
  /\ ref \in RefFiles
  /\ pc = "idle"
  /\ it = 0
  /\ ax = 0
  /\ extversion = None
  /\ dgeover = 0
  /\ wcsdvarr_ind = <<>>
  /\ error = "none"
  /\ runs = 0
  /\ fobj0 = fobj
  /\ prev = <<>>
  /\ log = <<>>
  /\ visited = <<>>

Callable == \/ pc = "idle"
            \/ pc = "done" /\ error = "none"

\* DGEO(fobj) with no DGEOFILE in the primary header: line 43 raises KeyError.
CallNoDgeofile ==
  /\ Callable /\ runs < MaxRuns
  /\ ~HasKey(fobj[1].header, "DGEOFILE")
  /\ pc' = "done" /\ error' = "DGEOFILE"
  /\ runs' = runs + 1
  /\ fobj0' = fobj /\ prev' = (IF pc = "done" THEN fobj ELSE <<>>)
  /\ log' = <<>> /\ visited' = <<>>
  /\ dgeover' = 0
  /\ UNCHANGED <<fobj, ref, it, ax, extversion, wcsdvarr_ind>>

\* DGEO(fobj): applyDgeoCorr up to the loop.
Call ==
  /\ Callable /\ runs < MaxRuns
  /\ HasKey(fobj[1].header, "DGEOFILE")
  /\ dgeover' = 0
  /\ wcsdvarr_ind' = getwcsindex(fobj)
  /\ it' = 1 /\ ax' = 0 /\ extversion' = None
  /\ pc' = "loop" /\ error' = "none"
  /\ runs' = runs + 1
  /\ fobj0' = fobj /\ prev' = (IF pc = "done" THEN fobj ELSE <<>>)
  /\ log' = <<>> /\ visited' = <<>>
  /\ UNCHANGED <<fobj, ref>>

\* for ext in self.fobj: KeyError on EXTNAME, continue
SkipNoExtname ==
  /\ pc = "loop" /\ it <= Len(fobj)
  /\ ~HasExtname(fobj[it]) /\ ~IsSciExt(fobj[it])
  /\ it' = it + 1
  /\ UNCHANGED <<fobj, ref, pc, ax, extversion, dgeover, wcsdvarr_ind, error,
                 runs, fobj0, prev, log, visited>>

\* extname != 'sci'
SkipOther ==
  /\ pc = "loop" /\ it <= Len(fobj)
  /\ HasExtname(fobj[it]) /\ ~IsSciExt(fobj[it])
  /\ it' = it + 1
  /\ UNCHANGED <<fobj, ref, pc, ax, extversion, dgeover, wcsdvarr_ind, error,
                 runs, fobj0, prev, log, visited>>

\* extname == 'sci': extversion = ext.header['EXTVER']
BeginSci ==
  /\ pc = "loop" /\ it <= Len(fobj)
  /\ IsSciExt(fobj[it])
  /\ extversion' = Get(fobj[it].header, "EXTVER")
  /\ ax' = 1 /\ pc' = "axis"
  /\ visited' = Append(visited, it)
  /\ UNCHANGED <<fobj, ref, it, dgeover, wcsdvarr_ind, error, runs, fobj0, prev, log>>

\* The file after dgeover += 1 and addSciExtKw, which every outcome of one
\* pass of `for ename in ['DX', 'DY']` shares.
Annotated ==
  [fobj EXCEPT ![it].header =
     addSciExtKw(fobj[it].header, dgeover + 1, Enames[ax], fobj[1].header)]

AxisAbort(why) ==
  /\ fobj' = Annotated
  /\ dgeover' = dgeover + 1
  /\ pc' = "done" /\ error' = why
  /\ UNCHANGED <<ref, it, ax, extversion, wcsdvarr_ind, runs, fobj0, prev, log, visited>>

\* createDgeoHdr raises KeyError on INSTRUME or dgeo_vals[instr]
AxisInstrFail ==
  /\ pc = "axis"
  /\ ~LookupInstr(Annotated[1].header).ok
  /\ AxisAbort("INSTRUME")

\* pyfits.getdata finds no extension (ename, extversion)
AxisRefFail ==
  /\ pc = "axis"
  /\ LookupInstr(Annotated[1].header).ok
  /\ ~HasDgeoData(ref, Enames[ax], extversion)
  /\ AxisAbort("refdata")

\* wcsdvarr_ind is not empty and has no key dgeover
AxisIndexFail ==
  /\ pc = "axis"
  /\ LookupInstr(Annotated[1].header).ok
  /\ HasDgeoData(ref, Enames[ax], extversion)
  /\ IndexMiss(wcsdvarr_ind, dgeover + 1)
  /\ AxisAbort("wcsdvarr_ind")

\* One pass of `for ename in ['DX', 'DY']` that stores its hdu.
AxisStore ==
  /\ pc = "axis"
  /\ LookupInstr(Annotated[1].header).ok
  /\ HasDgeoData(ref, Enames[ax], extversion)
  /\ ~IndexMiss(wcsdvarr_ind, dgeover + 1)
  /\ LET ver == dgeover + 1
         hdu == createDgeoHDU(ver, Enames[ax], extversion,
                              LookupInstr(Annotated[1].header).vals)
     IN /\ fobj' = StoreHdu(Annotated, Slot(Annotated, wcsdvarr_ind, ver), hdu)
        /\ dgeover' = ver
        /\ log' = Append(log, [ver |-> ver,
                               pos |-> Slot(Annotated, wcsdvarr_ind, ver),
                               grew |-> Len(fobj') > Len(fobj),
                               sci |-> it, ename |-> Enames[ax],
                               extver |-> extversion.n])
  /\ IF ax = 1 THEN ax' = 2 /\ pc' = "axis" ELSE ax' = 0 /\ pc' = "endsci"
  /\ UNCHANGED <<ref, it, extversion, wcsdvarr_ind, error, runs, fobj0, prev, visited>>

\* self.updateDGEOkw(ext.header), and on to the next extension
EndSci ==
  /\ pc = "endsci"
  /\ fobj' = [fobj EXCEPT ![it].header = updateDGEOkw(fobj[it].header, fobj[1].header)]
  /\ it' = it + 1 /\ pc' = "loop"
  /\ UNCHANGED <<ref, ax, extversion, dgeover, wcsdvarr_ind, error, runs, fobj0,
                 prev, log, visited>>

\* The iterator is exhausted: applyDgeoCorr returns.
Return ==
  /\ pc = "loop" /\ it > Len(fobj)
  /\ pc' = "done"
  /\ UNCHANGED <<fobj, ref, it, ax, extversion, dgeover, wcsdvarr_ind, error,
                 runs, fobj0, prev, log, visited>>

Next ==
  \/ CallNoDgeofile
  \/ Call
  \/ SkipNoExtname
  \/ SkipOther
  \/ BeginSci
  \/ AxisInstrFail
  \/ AxisRefFail
  \/ AxisIndexFail
  \/ AxisStore
  \/ EndSci
  \/ Return

Spec == Init /\ [][Next]_vars

-----------------------------------------------------------------------------
\* Vocabulary of the properties.  It reads the file object directly and does
\* not go through the operators that model dgeo.py.

ExtName(e) == IF HasKey(e.header, "EXTNAME") THEN Get(e.header, "EXTNAME").s ELSE ""

VerOf(e) == Get(e.header, "EXTVER").n

\* Positions of the science extensions ('SCI' in any case) of a file.
SciAt(f) == {i \in 1..Len(f) : ExtName(f[i]) \in {"SCI", "sci", "Sci", "sCI"}}

\* Positions of the lookup extensions of a file.
LookupAt(f) == {i \in 1..Len(f) : ExtName(f[i]) = "WCSDVARR"}

\* Positions of the extensions without EXTNAME of a file.
NoNameAt(f) == {i \in 1..Len(f) : ~HasKey(f[i].header, "EXTNAME")}

\* k of the science extension at position i: it is the k-th in file order.
Rank(f, i) == Cardinality({j \in SciAt(f) : j <= i})

\* N: the number of science extensions when the call started.
NSci == Cardinality(SciAt(fobj0))

DoneOk == pc = "done" /\ error = "none"

LookupsWith(f, v) == {i \in LookupAt(f) : VerOf(f[i]) = v}

\* This call stored no lookup extension.
NoLookupStored ==
  /\ log = <<>>
  /\ Len(fobj) = Len(fobj0)
  /\ \A i \in LookupAt(fobj0) : fobj[i] = fobj0[i]

UnknownInstr ==
  /\ HasKey(fobj0[1].header, "INSTRUME")
  /\ Get(fobj0[1].header, "INSTRUME").s \notin DOMAIN dgeo_vals

GoodConfig ==
  /\ HasKey(fobj0[1].header, "DGEOFILE")
  /\ HasKey(fobj0[1].header, "INSTRUME")
  /\ Get(fobj0[1].header, "INSTRUME").s \in DOMAIN dgeo_vals

C2_DpExtverByRank ==
  DoneOk => \A i \in SciAt(fobj) :
              /\ Get(fobj[i].header, "DP1.EXTVER") = Num(2 * Rank(fobj, i) - 1)
              /\ Get(fobj[i].header, "DP2.EXTVER") = Num(2 * Rank(fobj, i))

C2_Witness ==
  /\ DoneOk
  /\ \E i \in SciAt(fobj) : /\ Rank(fobj, i) = 2 /\ VerOf(fobj[i]) = 1
                            /\ Get(fobj[i].header, "DP1.EXTVER") = Num(3)

\* C3: a second completed call leaves the file object as the first completed
\* call left it: the same number of extensions, every header and every data
\* array identical.
C3_Idempotent ==
  (DoneOk /\ runs >= 2) =>
     /\ Len(fobj) = Len(prev)
     /\ \A i \in 1..Len(fobj) : i <= Len(prev) => fobj[i] = prev[i]

C3_Witness ==
  /\ DoneOk /\ runs = 2 /\ NSci = 2
  /\ Len(log) = 4 /\ \A k \in 1..Len(log) : ~log[k].grew

\* C4 as stated: the choice between overwriting and appending is made for each
\* lookup version: a version the file held at the start is replaced where it
\* was, any other version is appended, and a missing version never aborts the
\* call.
C4_PerVersionDecision ==
  /\ error # "wcsdvarr_ind"
  /\ \A k \in 1..Len(log) :
       IF LookupsWith(fobj0, log[k].ver) # {}
         THEN ~log[k].grew /\ log[k].pos \in LookupsWith(fobj0, log[k].ver)
         ELSE log[k].grew /\ log[k].pos > Len(fobj0)

\* C5 as stated: with an INSTRUME value that is no key of the defaults table
\* the call fails, and no lookup extension was appended or replaced.
C5_UnknownInstrFails ==
  (pc = "done" /\ UnknownInstr) => (error # "none" /\ NoLookupStored)

\* C5 amended: with an INSTRUME value that is no key of the defaults table and
\* at least one science extension in the file the call fails; and with such an
\* INSTRUME no lookup extension is ever appended or replaced.
C5_UnknownInstrFailsWithSci ==
  /\ (pc = "done" /\ UnknownInstr /\ NSci >= 1) => error # "none"
  /\ (runs >= 1 /\ UnknownInstr) => NoLookupStored

C5_Witness ==
  /\ pc = "done" /\ UnknownInstr /\ error = "INSTRUME"
  /\ LookupAt(fobj0) # {} /\ NSci >= 1

\* C6: an extension without EXTNAME keeps its position, header and data, is
\* never visited as a science extension nor chosen as the slot of a lookup
\* extension, and the lookup versions count the science extensions only.
C6_NoNameUntouched ==
  runs >= 1 =>
    /\ \A i \in NoNameAt(fobj0) :
         /\ fobj[i] = fobj0[i]
         /\ \A k \in 1..Len(log) : log[k].pos # i
         /\ \A k \in 1..Len(visited) : visited[k] # i
    /\ \A k \in 1..Len(log) :
         log[k].ver = 2 * (Rank(fobj0, log[k].sci) - 1)
                      + (IF log[k].ename = "DX" THEN 1 ELSE 2)

C6_Witness ==
  /\ DoneOk
  /\ \E i \in NoNameAt(fobj0), j \in SciAt(fobj0) : 1 < i /\ i < j
  /\ Len(log) >= 2

\* C7 as stated: the header of every lookup extension the call builds takes
\* each grid descriptor from the defaults entry of the same name, with
\* EXTNAME = 'WCSDVARR' and EXTVER = the lookup version passed in.
C7_DescriptorsFromDefaults ==
  \A k \in 1..Len(log) :
    LET h == fobj[log[k].pos].header
        d == dgeo_vals[Get(fobj0[1].header, "INSTRUME").s]
    IN /\ Get(h, "NAXIS1") = d.naxis1 /\ Get(h, "NAXIS2") = d.naxis2
       /\ Get(h, "CRPIX1") = d.crpix1 /\ Get(h, "CDELT1") = d.cdelt1
       /\ Get(h, "CRVAL1") = d.crval1 /\ Get(h, "CRPIX2") = d.crpix2
       /\ Get(h, "CDELT2") = d.cdelt2 /\ Get(h, "CRVAL2") = d.crval2
       /\ Get(h, "EXTNAME") = Str("WCSDVARR")
       /\ Get(h, "EXTVER") = Num(log[k].ver)

\* C8: after a completed call, for the k-th science extension, of EXTVER v,
\* the WCSDVARR extension 2k-1 holds the array ('DX', v) of the reference file
\* and the WCSDVARR extension 2k holds the array ('DY', v).
C8_DataBySciVersion ==
  DoneOk => \A i \in SciAt(fobj) :
              LET k == Rank(fobj, i)
                  v == VerOf(fobj[i])
              IN /\ LookupsWith(fobj, 2 * k - 1) # {}
                 /\ LookupsWith(fobj, 2 * k) # {}
                 /\ \A j \in LookupsWith(fobj, 2 * k - 1) :
                      fobj[j].data = [src |-> "DX", ver |-> v]
                 /\ \A j \in LookupsWith(fobj, 2 * k) :
                      fobj[j].data = [src |-> "DY", ver |-> v]

\* A slot was overwritten for a science extension whose EXTVER is not its rank.
C8_Witness ==
  /\ DoneOk
  /\ \E k \in 1..Len(log) : /\ ~log[k].grew
                            /\ log[k].extver # Rank(fobj0, log[k].sci)

\* The reference file lacks an array the science extension at i needs.
LacksData(i) ==
  \E e \in {"DX", "DY"} : <<e, VerOf(fobj0[i])>> \notin ref

\* The first science extension the reference file cannot serve.
FirstLacking ==
  CHOOSE i \in SciAt(fobj0) :
    LacksData(i) /\ \A j \in SciAt(fobj0) : LacksData(j) => i <= j

\* C9 as stated: when the reference file lacks an array for the k-th science
\* extension, the call aborts while processing that extension; the science
\* extensions before it keep both keyword blocks and DGEOFILE and their
\* 2(k-1) lookup extensions are in the file; the ones after it are untouched.
C9_AbortAtKth ==
  (pc = "done" /\ GoodConfig /\ \E i \in SciAt(fobj0) : LacksData(i)) =>
     /\ error # "none"
     /\ it = FirstLacking
     /\ \A i \in SciAt(fobj0) :
          /\ i < FirstLacking =>
               /\ Get(fobj[i].header, "DP1.EXTVER") = Num(2 * Rank(fobj0, i) - 1)
               /\ Get(fobj[i].header, "DP2.EXTVER") = Num(2 * Rank(fobj0, i))
               /\ HasKey(fobj[i].header, "DGEOFILE")
               /\ \A v \in {2 * Rank(fobj0, i) - 1, 2 * Rank(fobj0, i)} :
                    \E j \in LookupsWith(fobj, v) : fobj[j].data.src \in {"DX", "DY"}
          /\ i > FirstLacking => fobj[i] = fobj0[i]

\* The science positions of the file at the start of the call, in file order.
RECURSIVE SciSeq(_, _)
SciSeq(f, i) ==
  IF i > Len(f) THEN <<>>
  ELSE (IF i \in SciAt(f) THEN <<i>> ELSE <<>>) \o SciSeq(f, i + 1)

Running == pc \in {"loop", "axis", "endsci"}

\* What is left of the traversal: the extensions the iterator has not passed,
\* were the file to grow by two for each initial science extension, and the
\* steps left within the current extension.
Variant ==
  4 * (Len(fobj0) + 2 * NSci + 1 - it)
  + (CASE pc = "loop" -> 3
       [] pc = "axis" /\ ax = 1 -> 2
       [] pc = "axis" /\ ax # 1 -> 1
       [] OTHER -> 0)

C10_Safe ==
  /\ \A k \in 1..Len(visited) :
       /\ visited[k] \in SciAt(fobj0)
       /\ \A m \in 1..(k - 1) : visited[m] < visited[k]
  /\ Len(fobj) <= Len(fobj0) + 2 * NSci
  /\ Running => (Variant >= 0 /\ it <= Len(fobj) + 1)
  /\ DoneOk => /\ visited = SciSeq(fobj0, 1)
               /\ dgeover = 2 * NSci
               /\ Len(log) = 2 * NSci

\* C10: the traversal ends although it appends to the sequence it iterates:
\* the extensions it processes are science extensions that were in the file
\* when the call started, each at most once and in file order, never one it
\* stored itself; the file grows by at most two extensions for each of them and
\* every step of a running call lowers a non-negative measure, so the call
\* ends; a call that completes has processed all of them and generated exactly
\* 2N lookup versions.
C10_TraversalTerminates ==
  /\ [] C10_Safe
  /\ [][(Running /\ Running') => Variant' < Variant]_vars

\* A completed call that appended four extensions to the sequence it iterated.
C10_Witness ==
  /\ DoneOk /\ NSci = 2
  /\ Len(fobj) = Len(fobj0) + 4
  /\ it = Len(fobj) + 1

====
